---- MODULE Spec2Model ----
(***************************************************************************)
(* A model of the menu scraper (src/scraper.py, src/app.py).               *)
(*                                                                         *)
(* The program has four independent parts, each with its own variables     *)
(* and its own specification:                                              *)
(*   SpecExtract   extract_menu_data on bounded texts                      *)
(*   SpecFetch     fetch_html under the tenacity retry decorator           *)
(*   SpecRun       run_scraper steps 1-3 (two locale steps, merge_data)    *)
(*   SpecImages    run_scraper step 4 (the worker pool of download_image)  *)
(*   SpecSeqImages the same pool with a single worker                      *)
(* A specification leaves the variables of the other parts at their idle   *)
(* values.                                                                 *)
(***************************************************************************)
EXTENDS Integers, Sequences, FiniteSets, TLC

VARIABLES
    html_content,   \* extract_menu_data: the text handed to the function
    json_out,       \* extract_menu_data: what the call produced
    proxy,          \* fetch_html: the proxy argument
    proxies,        \* fetch_html: the proxies mapping built from it
    fetch_pc,       \* fetch_html: where the retrying call stands
    attempt_log,    \* fetch_html: the outcome of every requests.get so far
    fetch_ret,      \* fetch_html: what the caller received
    url_input,      \* run_scraper: the address typed by the user
    scrape_en,      \* run_scraper: "Scrape English Menu" is ticked
    scrape_ar,      \* run_scraper: "Scrape Arabic Menu" is ticked
    data_en,        \* run_scraper: the English items
    data_ar,        \* run_scraper: the Arabic items
    df,             \* run_scraper: the merged table
    logs,           \* run_scraper: st.session_state.logs
    run_pc,         \* run_scraper: the step the run has reached
    batch_size,     \* run_scraper: the size of the worker pool
    n_tasks,        \* run_scraper: len(tasks)
    queue,          \* the pool: the submitted tasks no worker has taken yet
    thread,         \* the pool: each worker's call of download_image
    files,          \* the images directory: path -> the file there
    done_q,         \* the pool: results of finished futures, not yet collected
    completed,      \* run_scraper: futures collected
    downloaded_count, \* run_scraper: futures collected that gave a path
    batch_pc,       \* run_scraper: where step 4 stands
    n_failed,       \* history: calls whose request or write failed
    last_call       \* history: the call of download_image that returned last

extractVars == <<html_content, json_out>>
fetchVars == <<proxy, proxies, fetch_pc, attempt_log, fetch_ret>>
runVars == <<url_input, scrape_en, scrape_ar, data_en, data_ar, df, logs, run_pc>>

imageVars == <<batch_size, n_tasks, queue, thread, files, done_q, completed,
               downloaded_count, batch_pc, n_failed, last_call>>

vars == <<extractVars, fetchVars, runVars, imageVars>>

Max(a, b) == IF a >= b THEN a ELSE b

(***************************************************************************)
(* extract_menu_data (src/scraper.py:33-76)                                *)
(*                                                                         *)
(* A text is a sequence of characters.  "M" stands for the quoted marker   *)
(* with its colon and optional blanks ("menuData" : ), "m" for the bare    *)
(* marker (menuData : ), "q" for a double quote and "x" for any other      *)
(* character.  A JSON object is "{" elements "}", an element being an      *)
(* object, a string literal q ... q, or another character.                 *)
(***************************************************************************)
MaxHtmlLen == 6

Chars == {"{", "}", "q", "x", "M", "m"}

Texts == UNION {[1..n -> Chars] : n \in 0..MaxHtmlLen}

NotCalled == [kind |-> "not_called", val |-> <<>>]
None == [kind |-> "none", val |-> <<>>]
Raised == [kind |-> "raised", val |-> <<>>]
Value(v) == [kind |-> "value", val |-> v]

\* re.search(pattern, html_content): the first position of the marker `mk`
\* directly followed by an opening brace, 0 when there is none.
ReSearch(text, mk) ==
    LET hits == {i \in 1..(Len(text) - 1) : text[i] = mk /\ text[i + 1] = "{"}
    IN IF hits = {} THEN 0 ELSE CHOOSE i \in hits : \A j \in hits : i <= j

\* match.start(1): the quoted form first, the bare form as the fallback.
MatchStart(text) ==
    LET quoted == ReSearch(text, "M")
        bare == ReSearch(text, "m")
    IN IF quoted # 0 THEN quoted + 1
       ELSE IF bare # 0 THEN bare + 1
       ELSE 0

\* A variant of BraceScan that stops at the first closing brace, whatever
\* the depth.
RECURSIVE BraceScan_FirstClose(_, _, _)
BraceScan_FirstClose(text, i, brace_count) ==
    IF i > Len(text) THEN 0
    ELSE IF text[i] = "}" THEN i
    ELSE BraceScan_FirstClose(text, i + 1, brace_count)

\* The for loop of lines 60-71: the first position at which brace_count is
\* back to zero, 0 when the text ends first.
RECURSIVE BraceScan(_, _, _)
BraceScan(text, i, brace_count) ==
    IF i > Len(text) THEN 0
    ELSE IF text[i] = "{" THEN BraceScan(text, i + 1, brace_count + 1)
    ELSE IF text[i] = "}"
         THEN IF brace_count - 1 = 0 THEN i
              ELSE BraceScan(text, i + 1, brace_count - 1)
    ELSE BraceScan(text, i + 1, brace_count)

\* json.loads on a span: the parsed value as the preorder list of its
\* nodes, or a decode error.  String literals are opaque to the nesting.
Tok(t, s) == [t |-> t, s |-> s]

RECURSIVE JsonScan(_, _, _, _, _, _)
JsonScan(s, i, depth, inStr, cur, acc) ==
    IF i > Len(s)
    THEN [ok |-> (depth = 0 /\ ~inStr /\ Len(s) > 0), v |-> acc]
    ELSE IF inStr
         THEN IF s[i] = "q"
              THEN JsonScan(s, i + 1, depth, FALSE, <<>>, Append(acc, Tok("str", cur)))
              ELSE JsonScan(s, i + 1, depth, TRUE, Append(cur, s[i]), acc)
    ELSE IF depth = 0 /\ i > 1 THEN [ok |-> FALSE, v |-> <<>>]
    ELSE IF s[i] = "{"
         THEN JsonScan(s, i + 1, depth + 1, FALSE, <<>>, Append(acc, Tok("open", <<>>)))
    ELSE IF depth = 0 THEN [ok |-> FALSE, v |-> <<>>]
    ELSE IF s[i] = "}"
         THEN JsonScan(s, i + 1, depth - 1, FALSE, <<>>, Append(acc, Tok("close", <<>>)))
    ELSE IF s[i] = "q" THEN JsonScan(s, i + 1, depth, TRUE, <<>>, acc)
    ELSE JsonScan(s, i + 1, depth, FALSE, <<>>, Append(acc, Tok("atom", <<s[i]>>)))

JsonLoads(s) == JsonScan(s, 1, 0, FALSE, <<>>, <<>>)

\* A variant of ParseSpan that lets the decode error escape.
ParseSpan_NoCatch(json_str) ==
    LET r == JsonLoads(json_str)
    IN IF r.ok THEN Value(r.v) ELSE Raised

\* Lines 67-71: the parsed span, or None on a JSONDecodeError.
ParseSpan(json_str) ==
    LET r == JsonLoads(json_str)
    IN IF r.ok THEN Value(r.v) ELSE None

extract_menu_data(text) ==
    LET start_index == MatchStart(text)
        end_index == BraceScan(text, start_index, 0)
    IN IF start_index = 0 THEN None
       ELSE IF end_index = 0 THEN None
       ELSE ParseSpan(SubSeq(text, start_index, end_index))

InitExtract ==
    /\ html_content \in Texts
    /\ json_out = NotCalled

IdleExtract ==
    /\ html_content = <<>>
    /\ json_out = NotCalled

ExtractMenuData ==
    /\ json_out = NotCalled
    /\ json_out' = extract_menu_data(html_content)
    /\ UNCHANGED html_content
    /\ UNCHANGED <<fetchVars, runVars, imageVars>>

NextExtract == ExtractMenuData

(***************************************************************************)
(* fetch_html (src/scraper.py:15-31) under                                 *)
(* @retry(stop=stop_after_attempt(3), wait=wait_fixed(2))                  *)
(***************************************************************************)
StopAfterAttempt == 3

NoProxy == "none"
Proxies == {NoProxy, "http://proxy"}
Bodies == {"<html>a", "<html>b"}
\* requests.RequestException raised by requests.get or raise_for_status
Failures == {"connection_error", "http_status", "timeout"}

NoValue == "no_value"

Attempt(outcome, body) == [outcome |-> outcome, body |-> body]

\* A variant of Stop that allows one attempt too many.
Stop_OneMore(attempt_number) == attempt_number > StopAfterAttempt

\* stop_after_attempt(3): give up once this many attempts were made.
Stop(attempt_number) == attempt_number >= StopAfterAttempt

InitFetch ==
    /\ proxy \in Proxies
    /\ proxies = "None"
    /\ fetch_pc = "call"
    /\ attempt_log = <<>>
    /\ fetch_ret = NoValue

IdleFetch ==
    /\ proxy = NoProxy
    /\ proxies = "None"
    /\ fetch_pc = "idle"
    /\ attempt_log = <<>>
    /\ fetch_ret = NoValue

\* Lines 18-23: the body up to the request, entered on every attempt.
BuildProxies ==
    /\ fetch_pc = "call"
    /\ proxies' = IF proxy # NoProxy THEN [http |-> proxy, https |-> proxy] ELSE "None"
    /\ fetch_pc' = "request"
    /\ UNCHANGED <<proxy, attempt_log, fetch_ret>>
    /\ UNCHANGED <<extractVars, runVars, imageVars>>

\* Lines 26-28: the request succeeds and the text is returned.
RequestOk ==
    /\ fetch_pc = "request"
    /\ \E body \in Bodies :
          /\ attempt_log' = Append(attempt_log, Attempt("ok", body))
          /\ fetch_ret' = body
    /\ fetch_pc' = "returned"
    /\ UNCHANGED <<proxy, proxies>>
    /\ UNCHANGED <<extractVars, runVars, imageVars>>

\* Lines 29-31: the request fails, the exception is printed and re-raised;
\* the decorator either stops (the failure goes to the caller) or waits.
RequestFails ==
    /\ fetch_pc = "request"
    /\ \E f \in Failures : attempt_log' = Append(attempt_log, Attempt(f, ""))
    /\ fetch_pc' = IF Stop(Len(attempt_log) + 1) THEN "raised" ELSE "wait"
    /\ UNCHANGED <<proxy, proxies, fetch_ret>>
    /\ UNCHANGED <<extractVars, runVars, imageVars>>

\* wait_fixed(2): after the pause the function is called again.
WaitFixed ==
    /\ fetch_pc = "wait"
    /\ fetch_pc' = "call"
    /\ UNCHANGED <<proxy, proxies, attempt_log, fetch_ret>>
    /\ UNCHANGED <<extractVars, runVars, imageVars>>

NextFetch == BuildProxies \/ RequestOk \/ RequestFails \/ WaitFixed

(***************************************************************************)
(* process_menu_data (src/scraper.py:78-97)                                *)
(*                                                                         *)
(* A value is a string; Null is Python's None (NaN once in a frame).  A    *)
(* raw item is a function from the keys it has to values.                  *)
(***************************************************************************)
MaxItems == 2

Null == "null"
Ids == {"i1", "i2"}
Payloads == {"v1", "v2"}

ItemKeys == {"id", "name", "description", "price", "originalSection",
             "image", "originalImage", "sectionName"}

\* A site's item: every field holds the payload v, "id" holds id unless the
\* item has no id at all, and a key the program does not read is present.
RawItem(id, v) ==
    [k \in (IF id = Null THEN (ItemKeys \ {"id"}) ELSE ItemKeys) \cup {"calories"} |->
        IF k = "id" THEN id ELSE v]

RawItems == {RawItem(id, v) : id \in Ids \cup {Null}, v \in Payloads}

RawLists == UNION {[1..n -> RawItems] : n \in 0..MaxItems}

\* What extract_menu_data hands over: None, an object without "items", or
\* an object with an item list.
NoItemsObject == [has_items |-> FALSE, items |-> <<>>]
ItemsObject(list) == [has_items |-> TRUE, items |-> list]
MenuObjects == {NoItemsObject} \cup {ItemsObject(l) : l \in RawLists}

\* item.get(k)
Get(item, k) == IF k \in DOMAIN item THEN item[k] ELSE Null

process_menu_data(menu_data) ==
    IF ~menu_data.has_items THEN <<>>
    ELSE [n \in 1..Len(menu_data.items) |->
             [k \in ItemKeys |-> Get(menu_data.items[n], k)]]

(***************************************************************************)
(* merge_data (src/scraper.py:151-199)                                     *)
(*                                                                         *)
(* A frame is its set of columns and its sequence of rows, each row a      *)
(* function from the columns to values.                                    *)
(***************************************************************************)
Frame(cols, rows) == [columns |-> cols, rows |-> rows]

\* pd.DataFrame(items): no columns at all for an empty list.
DataFrame(items) ==
    Frame(UNION {DOMAIN items[n] : n \in 1..Len(items)},
          [n \in 1..Len(items) |->
              [c \in UNION {DOMAIN items[m] : m \in 1..Len(items)} |-> Get(items[n], c)]])

RenameEn == [name |-> "name_en", description |-> "description_en",
             originalSection |-> "section_en", price |-> "price_en"]
RenameAr == [name |-> "name_ar", description |-> "description_ar",
             originalSection |-> "section_ar", price |-> "price_ar"]

NewName(c, mapping) == IF c \in DOMAIN mapping THEN mapping[c] ELSE c

\* df.rename(columns=mapping)
Rename(frame, mapping) ==
    LET cols == {NewName(c, mapping) : c \in frame.columns}
        old(c) == CHOOSE k \in frame.columns : NewName(k, mapping) = c
    IN Frame(cols, [n \in 1..Len(frame.rows) |-> [c \in cols |-> frame.rows[n][old(c)]]])

\* df[[...]]: a KeyError when a listed column is missing.
HasColumns(frame, cols) == cols \subseteq frame.columns
Select(frame, cols) ==
    Frame(cols, [n \in 1..Len(frame.rows) |-> [c \in cols |-> frame.rows[n][c]]])

\* The order in which an outer merge lists the keys: sorted, nulls last.
IdOrder == <<"i1", "i2", Null>>

WithId(rows, id) == SelectSeq(rows, LAMBDA r : r["id"] = id)

\* One merged row: the left row's fields, then the right row's; a side that
\* has no row with the key contributes nulls.
JoinRow(cols, left, right) ==
    [c \in cols |-> IF c \in DOMAIN left THEN left[c]
                    ELSE IF c \in DOMAIN right THEN right[c]
                    ELSE Null]

NoRow == <<>>

\* The rows an outer merge makes for one key: every pairing of the left
\* rows with the right rows that carry it.
RowsForId(cols, left, right, id) ==
    LET l == WithId(left, id)
        r == WithId(right, id)
    IN IF l = <<>> THEN [n \in 1..Len(r) |-> JoinRow(cols, [id |-> id], r[n])]
       ELSE IF r = <<>> THEN [n \in 1..Len(l) |-> JoinRow(cols, l[n], NoRow)]
       ELSE [n \in 1..(Len(l) * Len(r)) |->
                JoinRow(cols, l[((n - 1) \div Len(r)) + 1], r[((n - 1) % Len(r)) + 1])]

RECURSIVE MergeRows(_, _, _, _)
MergeRows(cols, left, right, k) ==
    IF k > Len(IdOrder) THEN <<>>
    ELSE RowsForId(cols, left, right, IdOrder[k]) \o MergeRows(cols, left, right, k + 1)

\* pd.merge(left, right, on='id', how='outer')
OuterMerge(left, right) ==
    Frame(left.columns \cup right.columns,
          MergeRows(left.columns \cup right.columns, left.rows, right.rows, 1))

\* pd.concat([left, right], axis=1): the rows are paired by position.
ConcatColumns(left, right) ==
    LET cols == left.columns \cup right.columns
        n_rows == Max(Len(left.rows), Len(right.rows))
        row(rows, n) == IF n <= Len(rows) THEN rows[n] ELSE NoRow
    IN Frame(cols, [n \in 1..n_rows |-> JoinRow(cols, row(left.rows, n), row(right.rows, n))])

ArabicColumns == {"name_ar", "description_ar", "section_ar"}

\* A variant of JoinOnId that takes the image from the Arabic frame.
JoinOnId_ImageFromArabic(df_en, df_ar) ==
    OuterMerge(Select(df_en, df_en.columns \ {"originalImage"}),
               Select(df_ar, {"id", "originalImage"} \cup ArabicColumns))

\* Line 177
JoinOnId(df_en, df_ar) == OuterMerge(df_en, Select(df_ar, {"id"} \cup ArabicColumns))

final_columns == {"id", "section_en", "section_ar", "name_en", "name_ar",
                  "description_en", "description_ar", "price_en", "originalImage"}

Raises == [ok |-> FALSE, rows |-> <<>>]
Returns(frame) == [ok |-> TRUE, rows |-> frame.rows]

merge_data(english_items, arabic_items) ==
    LET df_en == Rename(DataFrame(english_items), RenameEn)
        df_ar == Rename(DataFrame(arabic_items), RenameAr)
    IN IF "id" \in df_en.columns /\ "id" \in df_ar.columns
       THEN LET merged_df == JoinOnId(df_en, df_ar)
            IN Returns(Select(merged_df, final_columns \cap merged_df.columns))
       ELSE IF ~HasColumns(df_ar, ArabicColumns) THEN Raises
       ELSE LET merged_df == ConcatColumns(df_en, Select(df_ar, ArabicColumns))
            IN Returns(Select(merged_df, final_columns \cap merged_df.columns))

(***************************************************************************)
(* run_scraper, steps 1 to 3 (src/app.py:41-149)                           *)
(***************************************************************************)
InitRun ==
    /\ url_input \in {"", "https://site/restaurant"}
    /\ scrape_en \in BOOLEAN
    /\ scrape_ar \in BOOLEAN
    /\ data_en = <<>>
    /\ data_ar = <<>>
    /\ df = <<>>
    /\ logs = <<>>
    /\ run_pc = "start"

IdleRun ==
    /\ url_input = ""
    /\ scrape_en = FALSE
    /\ scrape_ar = FALSE
    /\ data_en = <<>>
    /\ data_ar = <<>>
    /\ df = <<>>
    /\ logs = <<>>
    /\ run_pc = "idle"

\* Lines 42-48: the run refuses an empty address or no language.
Start ==
    /\ run_pc = "start"
    /\ run_pc' = IF url_input = "" \/ (~scrape_en /\ ~scrape_ar)
                 THEN "refused" ELSE "english"
    /\ UNCHANGED <<url_input, scrape_en, scrape_ar, data_en, data_ar, df, logs>>
    /\ UNCHANGED <<extractVars, fetchVars, imageVars>>

\* log(message), lines 100-104, without the time stamp.
Log(message) == logs' = Append(logs, message)

Found(items, language) ==
    "Found " \o ToString(Len(items)) \o " items in " \o language \o " menu."

\* Line 109: English is not ticked, data_en stays empty.
EnglishNotSelected ==
    /\ run_pc = "english"
    /\ ~scrape_en
    /\ run_pc' = "arabic"
    /\ UNCHANGED <<url_input, scrape_en, scrape_ar, data_en, data_ar, df, logs>>
    /\ UNCHANGED <<extractVars, fetchVars, imageVars>>

\* Lines 112, 119-120: fetch_html raised after its retries; the exception
\* is logged and data_en stays empty.
EnglishFetchFailed ==
    /\ run_pc = "english"
    /\ scrape_en
    /\ Log("ERROR fetching English URL")
    /\ run_pc' = "arabic"
    /\ UNCHANGED <<url_input, scrape_en, scrape_ar, data_en, data_ar, df>>
    /\ UNCHANGED <<extractVars, fetchVars, imageVars>>

\* Lines 113-114, 117-118: extract_menu_data gave None (or an empty object).
EnglishExtractionAbsent ==
    /\ run_pc = "english"
    /\ scrape_en
    /\ Log("WARNING: Could not extract English menu data.")
    /\ run_pc' = "arabic"
    /\ UNCHANGED <<url_input, scrape_en, scrape_ar, data_en, data_ar, df>>
    /\ UNCHANGED <<extractVars, fetchVars, imageVars>>

\* Lines 114-116: the English page gave an object.
EnglishItems ==
    /\ run_pc = "english"
    /\ scrape_en
    /\ \E json_en \in MenuObjects :
          /\ data_en' = process_menu_data(json_en)
          /\ Log(Found(process_menu_data(json_en), "English"))
    /\ run_pc' = "arabic"
    /\ UNCHANGED <<url_input, scrape_en, scrape_ar, data_ar, df>>
    /\ UNCHANGED <<extractVars, fetchVars, imageVars>>

\* Line 125: Arabic is not ticked, data_ar stays empty.
ArabicNotSelected ==
    /\ run_pc = "arabic"
    /\ ~scrape_ar
    /\ run_pc' = "merge"
    /\ UNCHANGED <<url_input, scrape_en, scrape_ar, data_en, data_ar, df, logs>>
    /\ UNCHANGED <<extractVars, fetchVars, imageVars>>

\* Lines 128, 135-136
ArabicFetchFailed ==
    /\ run_pc = "arabic"
    /\ scrape_ar
    /\ Log("ERROR fetching Arabic URL")
    /\ run_pc' = "merge"
    /\ UNCHANGED <<url_input, scrape_en, scrape_ar, data_en, data_ar, df>>
    /\ UNCHANGED <<extractVars, fetchVars, imageVars>>

\* Lines 129-130, 133-134
ArabicExtractionAbsent ==
    /\ run_pc = "arabic"
    /\ scrape_ar
    /\ Log("WARNING: Could not extract Arabic menu data.")
    /\ run_pc' = "merge"
    /\ UNCHANGED <<url_input, scrape_en, scrape_ar, data_en, data_ar, df>>
    /\ UNCHANGED <<extractVars, fetchVars, imageVars>>

\* Lines 130-132: the Arabic page gave an object.
ArabicItems ==
    /\ run_pc = "arabic"
    /\ scrape_ar
    /\ \E json_ar \in MenuObjects :
          /\ data_ar' = process_menu_data(json_ar)
          /\ Log(Found(process_menu_data(json_ar), "Arabic"))
    /\ run_pc' = "merge"
    /\ UNCHANGED <<url_input, scrape_en, scrape_ar, data_en, df>>
    /\ UNCHANGED <<extractVars, fetchVars, imageVars>>

\* Lines 141-149: merge_data is called outside any try block, so what it
\* raises ends the run.
MergeData ==
    /\ run_pc = "merge"
    /\ LET result == merge_data(data_en, data_ar)
       IN /\ df' = result.rows
          /\ run_pc' = IF result.ok THEN "merged" ELSE "crashed"
    /\ Log("Merging Data...")
    /\ UNCHANGED <<url_input, scrape_en, scrape_ar, data_en, data_ar>>
    /\ UNCHANGED <<extractVars, fetchVars, imageVars>>

NextRun ==
    \/ Start
    \/ EnglishNotSelected
    \/ EnglishFetchFailed
    \/ EnglishExtractionAbsent
    \/ EnglishItems
    \/ ArabicNotSelected
    \/ ArabicFetchFailed
    \/ ArabicExtractionAbsent
    \/ ArabicItems
    \/ MergeData

(***************************************************************************)
(* download_image (src/scraper.py:99-149) and the worker pool of           *)
(* run_scraper (src/app.py:153-196)                                        *)
(*                                                                         *)
(* A URL, a file name and a path are sequences of tokens: a letter, a      *)
(* character, or a whole extension such as ".jpg".  Every path is inside   *)
(* the one images directory.                                               *)
(***************************************************************************)
MaxTasks == 2
MaxSeqTasks == 3

BatchSizes == {1, 2}
Threads == 1..2

ExtTokens == {".jpg", ".png"}
Urls == {<<"h", "/", "a", ".jpg", "?", "w">>, <<"h", "/", "b">>}
\* "" (no custom name), "a", " a*"
CustomNames == {<<>>, <<"a">>, <<" ", "a", "*">>}
ContentTypes == {"image/png", Null}

Task(url, custom_filename) == [url |-> url, custom_filename |-> custom_filename]
TaskSet == {Task(u, c) : u \in Urls, c \in CustomNames}
TaskLists(max) == UNION {[1..n -> TaskSet] : n \in 0..max}

Index(seq, tok) == {k \in 1..Len(seq) : seq[k] = tok}
MinOf(S) == CHOOSE k \in S : \A j \in S : k <= j
MaxOf(S) == CHOOSE k \in S : \A j \in S : k >= j

\* url.split('?')[0]
clean_url(url) ==
    IF Index(url, "?") = {} THEN url ELSE SubSeq(url, 1, MinOf(Index(url, "?")) - 1)

\* os.path.basename
Basename(path) ==
    IF Index(path, "/") = {} THEN path
    ELSE SubSeq(path, MaxOf(Index(path, "/")) + 1, Len(path))

\* os.path.splitext: <<root, extension>>; a name that is only an extension
\* has no extension.
SplitExt(name) ==
    IF Len(Basename(name)) >= 2 /\ name[Len(name)] \in ExtTokens
    THEN <<SubSeq(name, 1, Len(name) - 1), <<name[Len(name)]>>>>
    ELSE <<name, <<>>>>

\* mimetypes.guess_extension
GuessExtension(content_type) ==
    IF content_type = "image/png" THEN <<".png">> ELSE <<>>

\* Lines 112-119
DetermineExt(url, content_type) ==
    LET from_url == SplitExt(clean_url(url))[2]
        guessed == IF content_type # Null THEN GuessExtension(content_type) ELSE <<>>
    IN IF from_url # <<>> THEN from_url
       ELSE IF guessed # <<>> THEN guessed
       ELSE <<".jpg">>

\* c.isalpha() or c.isdigit() or c in "._- "
Safe(tok) == tok \notin {"/", "*", "?"}

RECURSIVE Strip(_)
Strip(name) ==
    IF name = <<>> THEN name
    ELSE IF name[1] = " " THEN Strip(Tail(name))
    ELSE IF name[Len(name)] = " " THEN Strip(SubSeq(name, 1, Len(name) - 1))
    ELSE name

Sanitize(name) == Strip(SelectSeq(name, Safe))

IsCustom(task) == task.custom_filename # <<>>

\* Lines 121-128; the prefix is always "" (app.py:175).
Filename(task, ext) ==
    IF IsCustom(task) THEN Sanitize(task.custom_filename) \o ext
    ELSE Sanitize(Basename(clean_url(task.url)))

\* A variant of PathExists that never sees a file.
PathExists_Never(path) == FALSE

\* os.path.exists(save_path)
PathExists(path) == path \in DOMAIN files

\* Line 137: f"{base}_{counter}{extension}"
Suffixed(filename, counter) ==
    SplitExt(filename)[1] \o <<"_", ToString(counter)>> \o SplitExt(filename)[2]

\* A variant of LoopCondition that tests the path once: an `if` in place
\* of the `while`.
LoopCondition_Once(path, counter) == counter = 1 /\ PathExists(path)

\* Line 136: while os.path.exists(save_path)
LoopCondition(path, counter) == PathExists(path)

\* What a call of download_image gives its future: a path, None, or an
\* exception.
PathResult(path) == [kind |-> "path", path |-> path]
NoneResult == [kind |-> "none", path |-> <<>>]
RaisedResult == [kind |-> "raised", path |-> <<>>]

\* A variant of ExceptClause that lets the exception out of the call.
ExceptClause_Reraise == RaisedResult

\* Lines 147-149: every exception of the call becomes None.
ExceptClause == NoneResult

NoTask == Task(<<>>, <<>>)
NoFiles == <<>>
Idle == [pc |-> "idle", task |-> NoTask, filename |-> <<>>, save_path |-> <<>>,
         counter |-> 0, seen |-> {}, pre |-> NoFiles, requested |-> FALSE]
NoCall == [task |-> NoTask, filename |-> <<>>, pre |-> NoFiles, ret |-> NoneResult,
           requested |-> FALSE]

\* A file: the tasks that opened it for writing, in order (its bytes are
\* those of the last one), and whether the last writer wrote every chunk.
File(by, complete) == [by |-> by, complete |-> complete]

\* open(save_path, 'wb'): the file is created, or truncated if it is there.
Opened(path, task) ==
    [p \in DOMAIN files \cup {path} |->
        IF p = path
        THEN File(IF path \in DOMAIN files THEN Append(files[path].by, task) ELSE <<task>>,
                  FALSE)
        ELSE files[p]]

InitImages(sizes, max_tasks) ==
    /\ batch_size \in sizes
    /\ queue \in TaskLists(max_tasks)
    /\ n_tasks = Len(queue)
    /\ thread = [t \in Threads |-> Idle]
    /\ files = NoFiles
    /\ done_q = <<>>
    /\ completed = 0
    /\ downloaded_count = 0
    /\ batch_pc = "running"
    /\ n_failed = 0
    /\ last_call = NoCall

IdleImages ==
    /\ batch_size = 1
    /\ queue = <<>>
    /\ n_tasks = 0
    /\ thread = [t \in Threads |-> Idle]
    /\ files = NoFiles
    /\ done_q = <<>>
    /\ completed = 0
    /\ downloaded_count = 0
    /\ batch_pc = "idle"
    /\ n_failed = 0
    /\ last_call = NoCall

Others == <<extractVars, fetchVars, runVars>>

\* The call of worker t ends with result: the future is done and the worker
\* is free again.
Return(t, result) ==
    /\ done_q' = Append(done_q, result)
    /\ thread' = [thread EXCEPT ![t] = Idle]
    /\ last_call' = [task |-> thread[t].task, filename |-> thread[t].filename,
                     pre |-> thread[t].pre, ret |-> result, requested |-> TRUE]

\* app.py:179-180: a free worker takes the next submitted task and enters
\* download_image.
TakeTask(t) ==
    /\ batch_pc = "running"
    /\ t <= batch_size
    /\ thread[t].pc = "idle"
    /\ queue # <<>>
    /\ thread' = [thread EXCEPT ![t] =
                     [Idle EXCEPT !.pc = "request", !.task = Head(queue), !.pre = files]]
    /\ queue' = Tail(queue)
    /\ UNCHANGED <<batch_size, n_tasks, files, done_q, completed, downloaded_count,
                   batch_pc, n_failed, last_call, Others>>

\* Lines 108-109: the request fails (a transport error, or raise_for_status
\* on a non-2xx status); the except clause ends the call.
ImageRequestFails(t) ==
    /\ thread[t].pc = "request"
    /\ n_failed' = n_failed + 1
    /\ Return(t, ExceptClause)
    /\ UNCHANGED <<batch_size, n_tasks, queue, files, completed, downloaded_count,
                   batch_pc, Others>>

\* Lines 108-130: the response came; extension, file name and path are set.
ImageRequestOk(t) ==
    /\ thread[t].pc = "request"
    /\ \E content_type \in ContentTypes :
          LET task == thread[t].task
              ext == DetermineExt(task.url, content_type)
          IN thread' = [thread EXCEPT ![t].pc = "check",
                                      ![t].requested = TRUE,
                                      ![t].filename = Filename(task, ext),
                                      ![t].save_path = Filename(task, ext)]
    /\ UNCHANGED <<batch_size, n_tasks, queue, files, done_q, completed,
                   downloaded_count, batch_pc, n_failed, last_call, Others>>

\* Line 133: a custom name whose path exists enters the renaming loop.
CheckCustomExists(t) ==
    /\ thread[t].pc = "check"
    /\ IsCustom(thread[t].task)
    /\ PathExists(thread[t].save_path)
    /\ thread' = [thread EXCEPT ![t].pc = "loop", ![t].counter = 1]
    /\ UNCHANGED <<batch_size, n_tasks, queue, files, done_q, completed,
                   downloaded_count, batch_pc, n_failed, last_call, Others>>

\* Lines 139-140: a URL-derived name whose path exists is returned as it is.
SkipExisting(t) ==
    /\ thread[t].pc = "check"
    /\ ~IsCustom(thread[t].task)
    /\ PathExists(thread[t].save_path)
    /\ Return(t, PathResult(thread[t].save_path))
    /\ UNCHANGED <<batch_size, n_tasks, queue, files, completed, downloaded_count,
                   batch_pc, n_failed, Others>>

\* Lines 133 and 139: the path is free, the call goes on to write it.
CheckFree(t) ==
    /\ thread[t].pc = "check"
    /\ ~PathExists(thread[t].save_path)
    /\ thread' = [thread EXCEPT ![t].pc = "open", ![t].seen = DOMAIN files]
    /\ UNCHANGED <<batch_size, n_tasks, queue, files, done_q, completed,
                   downloaded_count, batch_pc, n_failed, last_call, Others>>

\* Lines 136-138: the path is taken, the loop tries the next suffix.
LoopTaken(t) ==
    /\ thread[t].pc = "loop"
    /\ LoopCondition(thread[t].save_path, thread[t].counter)
    /\ thread' = [thread EXCEPT
                     ![t].save_path = Suffixed(thread[t].filename, thread[t].counter),
                     ![t].counter = thread[t].counter + 1]
    /\ UNCHANGED <<batch_size, n_tasks, queue, files, done_q, completed,
                   downloaded_count, batch_pc, n_failed, last_call, Others>>

\* Line 136: the path is free, the loop ends.
LoopFree(t) ==
    /\ thread[t].pc = "loop"
    /\ ~LoopCondition(thread[t].save_path, thread[t].counter)
    /\ thread' = [thread EXCEPT ![t].pc = "open", ![t].seen = DOMAIN files]
    /\ UNCHANGED <<batch_size, n_tasks, queue, files, done_q, completed,
                   downloaded_count, batch_pc, n_failed, last_call, Others>>

\* Line 142
OpenFile(t) ==
    /\ thread[t].pc = "open"
    /\ files' = Opened(thread[t].save_path, thread[t].task)
    /\ thread' = [thread EXCEPT ![t].pc = "write"]
    /\ UNCHANGED <<batch_size, n_tasks, queue, done_q, completed, downloaded_count,
                   batch_pc, n_failed, last_call, Others>>

\* Lines 143-146: every chunk is written, the path is returned.
WriteOk(t) ==
    /\ thread[t].pc = "write"
    /\ files' = [files EXCEPT ![thread[t].save_path].complete = TRUE]
    /\ Return(t, PathResult(thread[t].save_path))
    /\ UNCHANGED <<batch_size, n_tasks, queue, completed, downloaded_count,
                   batch_pc, n_failed, Others>>

\* Lines 143-144, 147-149: reading or writing a chunk fails; the file stays
\* as far as it was written.
WriteFails(t) ==
    /\ thread[t].pc = "write"
    /\ n_failed' = n_failed + 1
    /\ Return(t, ExceptClause)
    /\ UNCHANGED <<batch_size, n_tasks, queue, files, completed, downloaded_count,
                   batch_pc, Others>>

\* app.py:181-186: as_completed hands over a finished future.
Collect ==
    /\ batch_pc = "running"
    /\ done_q # <<>>
    /\ done_q' = Tail(done_q)
    /\ IF Head(done_q).kind = "raised"
       THEN /\ batch_pc' = "aborted"
            /\ UNCHANGED <<completed, downloaded_count>>
       ELSE /\ downloaded_count' =
                   downloaded_count + (IF Head(done_q).kind = "path" THEN 1 ELSE 0)
            /\ completed' = completed + 1
            /\ UNCHANGED batch_pc
    /\ UNCHANGED <<batch_size, n_tasks, queue, thread, files, n_failed, last_call, Others>>

\* app.py:196: every future was collected, the pool is left.
ExitPool ==
    /\ batch_pc = "running"
    /\ completed = n_tasks
    /\ batch_pc' = "finished"
    /\ UNCHANGED <<batch_size, n_tasks, queue, thread, files, done_q, completed,
                   downloaded_count, n_failed, last_call, Others>>

NextImages ==
    \/ \E t \in Threads :
          \/ TakeTask(t)
          \/ ImageRequestFails(t)
          \/ ImageRequestOk(t)
          \/ CheckCustomExists(t)
          \/ SkipExisting(t)
          \/ CheckFree(t)
          \/ LoopTaken(t)
          \/ LoopFree(t)
          \/ OpenFile(t)
          \/ WriteOk(t)
          \/ WriteFails(t)
    \/ Collect
    \/ ExitPool

(***************************************************************************)
(* Specifications                                                          *)
(***************************************************************************)
ExtractInit == InitExtract /\ IdleFetch /\ IdleRun /\ IdleImages
SpecExtract == ExtractInit /\ [][NextExtract]_vars

FetchInit == InitFetch /\ IdleExtract /\ IdleRun /\ IdleImages
SpecFetch == FetchInit /\ [][NextFetch]_vars

RunInit == InitRun /\ IdleExtract /\ IdleFetch /\ IdleImages
SpecRun == RunInit /\ [][NextRun]_vars

\* The pool with one or two workers.
ImagesInit == InitImages(BatchSizes, MaxTasks) /\ IdleExtract /\ IdleFetch /\ IdleRun
SpecImages == ImagesInit /\ [][NextImages]_vars

\* The pool with one worker: the calls of download_image follow one another.
SeqImagesInit == InitImages({1}, MaxSeqTasks) /\ IdleExtract /\ IdleFetch /\ IdleRun
SpecSeqImages == SeqImagesInit /\ [][NextImages]_vars

(***************************************************************************)
(* Claims about extract_menu_data                                          *)
(***************************************************************************)
\* The positions of the opening braces that directly follow a marker.
MarkerBraces(text) ==
    {i + 1 : i \in {k \in 1..(Len(text) - 1) :
                        text[k] \in {"M", "m"} /\ text[k + 1] = "{"}}

\* The brace the search settles on: the first quoted marker, else the first
\* bare one; 0 when no marker is followed by a brace.
FirstMarkerBrace(text) ==
    LET q == {i \in MarkerBraces(text) : text[i - 1] = "M"}
        b == {i \in MarkerBraces(text) : text[i - 1] = "m"}
        pick == IF q # {} THEN q ELSE b
    IN IF pick = {} THEN 0 ELSE CHOOSE i \in pick : \A j \in pick : i <= j

\* A well-formed object starts at position s (it ends at ObjectEnd).
ObjectEnds(text, s) == {e \in s..Len(text) : JsonLoads(SubSeq(text, s, e)).ok}
HasObjectAt(text, s) == s # 0 /\ ObjectEnds(text, s) # {}
ObjectEnd(text, s) == CHOOSE e \in ObjectEnds(text, s) : TRUE
ObjectAt(text, s) == JsonLoads(SubSeq(text, s, ObjectEnd(text, s))).v

\* #"{" - #"}" over text[s..e].
Depth(text, s, e) ==
    Cardinality({k \in s..e : text[k] = "{"}) - Cardinality({k \in s..e : text[k] = "}"})

ZeroDepthEnds(text, s) == {e \in s..Len(text) : Depth(text, s, e) = 0}
FirstZeroDepth(text, s) ==
    CHOOSE e \in ZeroDepthEnds(text, s) : \A f \in ZeroDepthEnds(text, s) : e <= f

BraceInString(v) ==
    \E k \in 1..Len(v) :
        v[k].t = "str" /\ \E n \in 1..Len(v[k].s) : v[k].s[n] \in {"{", "}"}

Nested(v) == Cardinality({k \in 1..Len(v) : v[k].t = "open"}) >= 2

\* C2 (as stated): whenever the brace after the first marker match opens a
\* well-formed object, the call returns a value equal to that object.
C2_AsStated ==
    LET s == FirstMarkerBrace(html_content)
    IN (json_out # NotCalled /\ HasObjectAt(html_content, s))
          => json_out = Value(ObjectAt(html_content, s))

\* C2 (amended): when the brace after the first marker match opens a
\* well-formed object none of whose string literals holds a brace, the call
\* returns that object, and the object ends at the first position where the
\* brace depth is back to zero.
C2_ExtractReturnsObject ==
    LET s == FirstMarkerBrace(html_content)
    IN (/\ json_out # NotCalled
        /\ HasObjectAt(html_content, s)
        /\ ~BraceInString(ObjectAt(html_content, s)))
           => /\ json_out = Value(ObjectAt(html_content, s))
              /\ BraceScan(html_content, s, 0) = FirstZeroDepth(html_content, s)
              /\ ObjectEnd(html_content, s) = FirstZeroDepth(html_content, s)

C2_Witness ==
    LET s == FirstMarkerBrace(html_content)
    IN /\ json_out.kind = "value"
       /\ HasObjectAt(html_content, s)
       /\ ~BraceInString(ObjectAt(html_content, s))
       /\ Nested(json_out.val)

\* C3: a call never raises, and it returns None when no marker is followed
\* by a brace, when the brace depth never returns to zero before the end of
\* the text, or when the isolated span is not valid JSON.
C3_ExtractAbsentNeverRaises ==
    LET s == FirstMarkerBrace(html_content)
        absent == \/ s = 0
                  \/ ZeroDepthEnds(html_content, s) = {}
                  \/ ~JsonLoads(SubSeq(html_content, s, FirstZeroDepth(html_content, s))).ok
    IN json_out # NotCalled =>
          /\ json_out.kind # "raised"
          /\ absent => json_out = None

C3_Witness ==
    LET s == FirstMarkerBrace(html_content)
    IN /\ json_out = None
       /\ s # 0
       /\ ZeroDepthEnds(html_content, s) # {}
       /\ ~JsonLoads(SubSeq(html_content, s, FirstZeroDepth(html_content, s))).ok

(***************************************************************************)
(* Claims about fetch_html                                                 *)
(***************************************************************************)
Failed(k) == attempt_log[k].outcome # "ok"

\* C8: at most 3 attempts are made; an attempt follows only failed attempts;
\* a successful attempt is the last one and its body is what the caller gets;
\* the call ends without a value, in an exception, exactly when 3 attempts
\* were made and all failed.
C8_RetryProtocol ==
    /\ Len(attempt_log) <= 3
    /\ \A k \in 1..(Len(attempt_log) - 1) : Failed(k)
    /\ \A k \in 1..Len(attempt_log) :
          ~Failed(k) => /\ k = Len(attempt_log)
                        /\ fetch_pc = "returned"
                        /\ fetch_ret = attempt_log[k].body
    /\ fetch_pc = "returned" => ~Failed(Len(attempt_log))
    /\ (Len(attempt_log) = 3 /\ \A k \in 1..3 : Failed(k))
          <=> (fetch_pc = "raised")
    /\ fetch_pc = "raised" => fetch_ret = NoValue

C8_Witness ==
    /\ fetch_pc = "raised"
    /\ Len(attempt_log) = 3

(***************************************************************************)
(* Claims about merge_data and run_scraper                                 *)
(***************************************************************************)
IdsOf(items) == {items[n]["id"] : n \in 1..Len(items)}
CarryId(items) == items # <<>> /\ \A n \in 1..Len(items) : "id" \in DOMAIN items[n]
Cell(row, c) == IF c \in DOMAIN row THEN row[c] ELSE Null
RowsWithId(id) == {n \in 1..Len(df) : "id" \in DOMAIN df[n] /\ df[n]["id"] = id}

\* C1 (as stated): when both item lists carry an id field (here: every item
\* has an id), the merged table has one row for every id of either list and
\* no other row.
C1_AsStated ==
    (/\ run_pc = "merged"
     /\ CarryId(data_en) /\ CarryId(data_ar)
     /\ Null \notin IdsOf(data_en) \cup IdsOf(data_ar))
       => /\ Len(df) = Cardinality(IdsOf(data_en) \cup IdsOf(data_ar))
          /\ \A id \in IdsOf(data_en) \cup IdsOf(data_ar) :
                Cardinality(RowsWithId(id)) = 1

\* C4 (as stated): whatever the two locale steps gave, the run gets through
\* the merge: merge_data raises nothing, and when a list is empty the rows
\* of the other list are all in the table.
C4_AsStated ==
    /\ run_pc # "crashed"
    /\ (run_pc = "merged" /\ (data_en = <<>> \/ data_ar = <<>>))
          => Len(df) = Len(data_en) + Len(data_ar)

\* C9: in every row of the merged table that has an id, originalImage and
\* price_en are those of an English item with that id, and are null when no
\* English item has it; name_ar, description_ar and section_ar are null when
\* no Arabic item has it.  A row without an id column (the positional
\* fallback) has no originalImage and no price_en.
C9_FieldProvenance ==
    run_pc = "merged" =>
       \A n \in 1..Len(df) :
          LET row == df[n]
              en == {k \in 1..Len(data_en) : data_en[k]["id"] = Cell(row, "id")}
              ar == {k \in 1..Len(data_ar) : data_ar[k]["id"] = Cell(row, "id")}
          IN IF "id" \in DOMAIN row
             THEN /\ IF en # {}
                     THEN \E k \in en :
                             /\ Cell(row, "originalImage") = data_en[k]["originalImage"]
                             /\ Cell(row, "price_en") = data_en[k]["price"]
                     ELSE /\ Cell(row, "originalImage") = Null
                          /\ Cell(row, "price_en") = Null
                  /\ ar = {} => /\ Cell(row, "name_ar") = Null
                                /\ Cell(row, "description_ar") = Null
                                /\ Cell(row, "section_ar") = Null
             ELSE /\ Cell(row, "originalImage") = Null
                  /\ Cell(row, "price_en") = Null

\* A table with a row whose id only the Arabic list has, and a row whose id
\* both lists have with different images.
C9_Witness ==
    /\ run_pc = "merged"
    /\ \E n \in 1..Len(df) :
          /\ "id" \in DOMAIN df[n]
          /\ df[n]["id"] \notin IdsOf(data_en)
          /\ df[n]["id"] \in IdsOf(data_ar)
          /\ df[n]["originalImage"] = Null
    /\ \E n \in 1..Len(df), k \in 1..Len(data_ar) :
          /\ "id" \in DOMAIN df[n]
          /\ df[n]["id"] \in IdsOf(data_en)
          /\ data_ar[k]["id"] = df[n]["id"]
          /\ data_ar[k]["originalImage"] # df[n]["originalImage"]

(***************************************************************************)
(* Claims about download_image and the image batch                         *)
(***************************************************************************)
Called(call) == call.task # NoTask

\* The path of a URL-derived name, which no response changes.
UrlPath(task) == Sanitize(Basename(clean_url(task.url)))

\* base, base_1, base_2, ...
Variant(filename, n) == IF n = 0 THEN filename ELSE Suffixed(filename, n)

\* C5 (as stated): a call with a URL-derived name whose file is already there
\* makes no request and returns the path of that file, which is written once.
C5_AsStated ==
    (/\ Called(last_call)
     /\ ~IsCustom(last_call.task)
     /\ UrlPath(last_call.task) \in DOMAIN last_call.pre)
       => /\ ~last_call.requested
          /\ last_call.ret = PathResult(UrlPath(last_call.task))
          /\ Len(files[UrlPath(last_call.task)].by) = 1

\* C6: with the calls one after another, a call with a custom name that
\* returns a path returns one that did not exist before the call; when base,
\* base_1, ..., base_{N-1} existed and base_N did not, that path is base_N;
\* and every file that existed before a call with a custom name is as it was.
C6_CustomNameNeverOverwrites ==
    LET c == last_call
    IN (Called(c) /\ IsCustom(c.task)) =>
          /\ \A p \in DOMAIN c.pre : p \in DOMAIN files /\ files[p] = c.pre[p]
          /\ c.ret.kind = "path" =>
                /\ c.ret.path \notin DOMAIN c.pre
                /\ c.ret.path \in DOMAIN files
                /\ \A N \in 1..Cardinality(DOMAIN c.pre) :
                      (/\ \A k \in 0..(N - 1) : Variant(c.filename, k) \in DOMAIN c.pre
                       /\ Variant(c.filename, N) \notin DOMAIN c.pre)
                         => c.ret.path = Variant(c.filename, N)

\* A call that found base and base_1 and returned base_2.
C6_Witness ==
    /\ Called(last_call)
    /\ IsCustom(last_call.task)
    /\ Variant(last_call.filename, 0) \in DOMAIN last_call.pre
    /\ Variant(last_call.filename, 1) \in DOMAIN last_call.pre
    /\ last_call.ret = PathResult(Variant(last_call.filename, 2))

\* C7: no exception leaves a call or the batch loop; when the batch ends,
\* every task was collected and the success count is the number of tasks
\* less those whose request or write failed.
C7_BatchSurvivesFailures ==
    /\ batch_pc # "aborted"
    /\ \A k \in 1..Len(done_q) : done_q[k].kind # "raised"
    /\ last_call.ret.kind # "raised"
    /\ completed + Len(done_q) <= n_tasks
    /\ batch_pc = "finished" =>
          /\ queue = <<>>
          /\ completed = n_tasks
          /\ downloaded_count = n_tasks - n_failed

C7_Witness ==
    /\ batch_pc = "finished"
    /\ n_failed >= 1
    /\ downloaded_count >= 1

\* Two tasks with custom names that opened the same path.
SharedPath(p) ==
    \E i, j \in 1..Len(files[p].by) :
        /\ i < j
        /\ IsCustom(files[p].by[i])
        /\ IsCustom(files[p].by[j])

\* C10 (as stated): whatever the interleaving, no two tasks with custom names
\* open the same path.
C10_AsStated == \A p \in DOMAIN files : ~SharedPath(p)

\* C10 (amended): the path a task with a custom name goes on to write did not
\* exist when the task made its last existence check, and with one worker no
\* two such tasks open the same path; with several workers two tasks can
\* open the same path, each having checked it before the other created it.
C10_PathFreeAtLastCheck ==
    /\ \A t \in Threads :
          (thread[t].pc \in {"open", "write"} /\ IsCustom(thread[t].task))
             => thread[t].save_path \notin thread[t].seen
    /\ batch_size = 1 => \A p \in DOMAIN files : ~SharedPath(p)

\* Two tasks with equal sanitized custom names ran in parallel and the second
\* is writing the path it found free, after the first created it.
C10_Witness ==
    \E t \in Threads, p \in DOMAIN files :
        /\ thread[t].pc = "write"
        /\ thread[t].save_path = p
        /\ SharedPath(p)
        /\ Sanitize(files[p].by[1].custom_filename) = Sanitize(files[p].by[2].custom_filename)
====
